---- MODULE Spec2Model ----
(***************************************************************************)
(* Model of the Syutsai Telegram bot (src/main.py).  The file holds two    *)
(* programs one after the other: the first (lines 1-619, SheetStore,       *)
(* handle_text, job_daily_broadcast) and the second (lines 620-1218,       *)
(* SheetsStore, upsert_from_update, on_text).  The variable prog says      *)
(* which of the two is running.                                            *)
(*                                                                         *)
(* Encoding of cell values.  status, plan and the three profile cells are  *)
(* strings.  The other cells are tuples whose head names the text format:  *)
(*   <<>>                     the empty string                             *)
(*   <<"iso", y, m, d>>       date.isoformat()            YYYY-MM-DD       *)
(*   <<"isodt", y, m, d>>     datetime.isoformat()        (time of day     *)
(*                            is not modelled)                             *)
(*   <<"ym", y, m>>           strftime("%Y-%m")           YYYY-MM          *)
(*   <<"dmy", dd, mm, yyyy>>  a text matching DATE_RE     DD.MM.YYYY       *)
(*   <<"txt", n>>             any other text                               *)
(*   <<"btn", n>>             one of the four keyboard labels of KB        *)
(* A date value (datetime.date) is the tuple <<y, m, d>>; None is <<>>.    *)
(***************************************************************************)
EXTENDS Integers, Sequences, FiniteSets, TLC

VARIABLES
    prog,      \* 1 or 2: which program of main.py is deployed
    enabled,   \* SheetStore.enabled / SheetsStore.ready()
    sheet,     \* the data rows of the worksheet (sheet row i+1 is sheet[i])
    today,     \* the wall clock's calendar date
    bc,        \* job_daily_broadcast: its locals while suspended at a send
    bcDay,     \* the date of the last run of job_daily_broadcast
    last,      \* the handler that ran last and the message it sent
    steps,     \* number of steps taken so far
    tasks,     \* handler coroutines in flight, each at its next sheet call
    turn,      \* the coroutine that holds the event loop, 0 when it is free
    call,      \* the last direct use of the store: the UserRow written and
               \* the UserRow read back
    grid,      \* the worksheet cell by cell: its header row and its data
               \* rows as lists of cells
    fault,     \* the store call that raised during the last event, "none"
               \* when none did
    nums,      \* the numbers computed last and what they were computed from
    sent       \* the send attempts of a broadcast run followed row by row:
               \* the sheet row of each and how send_message ended

vars == <<prog, enabled, sheet, today, bc, bcDay, last, steps, tasks, turn, call, grid,
          fault, nums, sent>>

\* ---------------------------------------------------------------- bounds
NUsers == 2
MaxSteps == 4
MaxTasks == 2

Users == 1..NUsers

\* -------------------------------------------------------------- calendar
TRIAL_DAYS == 7

None == <<>>
Empty == <<>>

IsLeap(y) == (y % 4 = 0 /\ y % 100 # 0) \/ y % 400 = 0

DaysInMonth(y, m) ==
    IF m \in {4, 6, 9, 11} THEN 30
    ELSE IF m = 2 THEN (IF IsLeap(y) THEN 29 ELSE 28)
    ELSE 31

\* datetime.date(yyyy, mm, dd) raises ValueError exactly when this is false
ValidDate(y, m, d) ==
    /\ y \in 1..9999
    /\ m \in 1..12
    /\ d \in 1..DaysInMonth(y, m)

NextDay(dt) ==
    IF dt[3] < DaysInMonth(dt[1], dt[2]) THEN <<dt[1], dt[2], dt[3] + 1>>
    ELSE IF dt[2] < 12 THEN <<dt[1], dt[2] + 1, 1>>
    ELSE <<dt[1] + 1, 1, 1>>

RECURSIVE AddDays(_, _)
\* date + timedelta(days=k)
AddDays(dt, k) == IF k = 0 THEN dt ELSE AddDays(NextDay(dt), k - 1)

DateLT(a, b) ==
    \/ a[1] < b[1]
    \/ a[1] = b[1] /\ a[2] < b[2]
    \/ a[1] = b[1] /\ a[2] = b[2] /\ a[3] < b[3]

IsoDate(dt) == <<"iso", dt[1], dt[2], dt[3]>>
IsoDateTime(dt) == <<"isodt", dt[1], dt[2], dt[3]>>
YearMonth(dt) == <<"ym", dt[1], dt[2]>>
DateOfIso(c) == <<c[2], c[3], c[4]>>

\* the clock starts here; the steps of Tick are the next day and the day
\* after a trial issued today has run out
Day0 == <<2024, 3, 24>>
TickJumps == {1, TRIAL_DAYS + 1}

\* --------------------------------------------------------- inbound input
\* update.effective_user: the profile Telegram sends with an update
Profile(uid) ==
    IF uid = 1
    THEN [username |-> "nick", first_name |-> "Ann", last_name |-> ""]
    ELSE [username |-> "", first_name |-> "Bob", last_name |-> "Lee"]

BirthText == <<"dmy", 5, 3, 1994>>      \* "05.03.1994"
ImpossibleText == <<"dmy", 31, 2, 2000>> \* "31.02.2000"
FutureText == <<"dmy", 9, 9, 2030>>      \* "09.09.2030"
FreeText == <<"txt", 0>>                 \* "hello"
BtnToday == <<"btn", 1>>
BtnStatus == <<"btn", 2>>
BtnSetBirth == <<"btn", 3>>
BtnHelp == <<"btn", 4>>

Texts1 == {BirthText, ImpossibleText, FutureText, FreeText}
Texts2 == Texts1 \cup {BtnToday, BtnStatus, BtnSetBirth, BtnHelp}

\* ------------------------------------------------------------- UserRow
\* mutant of UserRow: a record that is premium unless the sheet says otherwise
UserRow_premium_default(uid) ==
    [ telegram_user_id |-> uid,
      status |-> "active",
      plan |-> "premium",
      trial_expires |-> Empty,
      birth_date |-> Empty,
      created_at |-> Empty,
      last_seen_at |-> Empty,
      username |-> "",
      first_name |-> "",
      last_name |-> "",
      registered_on |-> Empty,
      last_full_ym |-> Empty ]

UserRow(uid) ==
    [ telegram_user_id |-> uid,
      status |-> "active",
      plan |-> "trial",
      trial_expires |-> Empty,
      birth_date |-> Empty,
      created_at |-> Empty,
      last_seen_at |-> Empty,
      username |-> "",
      first_name |-> "",
      last_name |-> "",
      registered_on |-> Empty,
      last_full_ym |-> Empty ]

\* mutant of parse_birth_date: the pattern alone, no date(yyyy, mm, dd)
parse_birth_date_pattern_only(text) ==
    IF Len(text) = 4 /\ text[1] = "dmy"
    THEN <<text[4], text[3], text[2]>>
    ELSE None

\* DATE_RE.match, then date(yyyy, mm, dd) with ValueError caught
parse_birth_date(text) ==
    IF Len(text) = 4 /\ text[1] = "dmy" /\ ValidDate(text[4], text[3], text[2])
    THEN <<text[4], text[3], text[2]>>
    ELSE None

\* b.strftime("%d.%m.%Y")
FormatDmy(dt) == <<"dmy", dt[3], dt[2], dt[1]>>

\* ======================================================================
\* First program: SheetStore
\* ======================================================================

\* the first sheet row (>= 2) whose id cell equals str(telegram_user_id); 0 is None
_find_row(s, uid) ==
    IF \E i \in 1..Len(s) : s[i].telegram_user_id = uid
    THEN 1 + CHOOSE i \in 1..Len(s) :
                /\ s[i].telegram_user_id = uid
                /\ \A j \in 1..(i - 1) : s[j].telegram_user_id # uid
    ELSE 0

\* mutant of upsert: a row that is there is deleted and the record is
\* appended at the end
upsert_move_to_end(s, ur) ==
    IF ~enabled THEN s
    ELSE LET row_idx == _find_row(s, ur.telegram_user_id) IN
         IF row_idx = 0 THEN Append(s, ur)
         ELSE Append([k \in 1..(Len(s) - 1) |->
                         IF k < row_idx - 1 THEN s[k] ELSE s[k + 1]], ur)

\* mutant of upsert: the header row is counted twice and the row below
\* the one found is written
upsert_off_by_one(s, ur) ==
    IF ~enabled THEN s
    ELSE LET row_idx == _find_row(s, ur.telegram_user_id) IN
         IF row_idx = 0 \/ row_idx > Len(s) THEN Append(s, ur)
         ELSE [s EXCEPT ![row_idx] = ur]

\* mutant of upsert: appends without looking the id up
upsert_blind_append(s, ur) ==
    IF ~enabled THEN s ELSE Append(s, ur)

\* mutant of upsert: a row that is there is patched cell by cell, and
\* cells the record leaves empty are skipped
upsert_patch_cells(s, ur) ==
    IF ~enabled THEN s
    ELSE LET row_idx == _find_row(s, ur.telegram_user_id) IN
         IF row_idx = 0 THEN Append(s, ur)
         ELSE [s EXCEPT ![row_idx - 1] =
                 [ur EXCEPT !.birth_date = IF @ = Empty THEN s[row_idx - 1].birth_date ELSE @,
                            !.last_full_ym = IF @ = Empty THEN s[row_idx - 1].last_full_ym ELSE @]]

upsert(s, ur) ==
    IF ~enabled THEN s
    ELSE LET row_idx == _find_row(s, ur.telegram_user_id) IN
         IF row_idx = 0 THEN Append(s, ur)
         ELSE [s EXCEPT ![row_idx - 1] = ur]

NewUserRow1(uid) ==
    [UserRow(uid) EXCEPT !.created_at = IsoDateTime(today),
                         !.registered_on = IsoDate(today),
                         !.last_seen_at = IsoDateTime(today)]

\* SheetStore.get, the row found: UserRow(...) built from row_values(row_idx)
ReadRow1(data) ==
    [ telegram_user_id |-> data.telegram_user_id,
      status |-> IF data.status = "" THEN "active" ELSE data.status,
      plan |-> IF data.plan = "" THEN "trial" ELSE data.plan,
      trial_expires |-> data.trial_expires,
      birth_date |-> data.birth_date,
      created_at |-> IF data.created_at = Empty
                     THEN IsoDateTime(today) ELSE data.created_at,
      last_seen_at |-> IF data.last_seen_at = Empty
                       THEN IsoDateTime(today) ELSE data.last_seen_at,
      username |-> data.username,
      first_name |-> data.first_name,
      last_name |-> data.last_name,
      registered_on |-> IF data.registered_on = Empty
                        THEN IsoDate(today) ELSE data.registered_on,
      last_full_ym |-> data.last_full_ym ]

\* SheetStore.get: the sheet after the call and the UserRow it returns
get(s, uid) ==
    IF ~enabled THEN [sheet |-> s, ur |-> NewUserRow1(uid)]
    ELSE LET row_idx == _find_row(s, uid) IN
         IF row_idx = 0
         THEN [sheet |-> upsert(s, NewUserRow1(uid)), ur |-> NewUserRow1(uid)]
         ELSE [sheet |-> s, ur |-> ReadRow1(s[row_idx - 1])]

\* ------------------------------------------------------ message builder
\* mutant of should_send_full_all: full whenever the month is a new one,
\* on any day of it
should_send_full_all_any_day(ur, d) ==
    IF ur.last_full_ym = Empty THEN <<TRUE, YearMonth(d)>>
    ELSE IF ur.last_full_ym # YearMonth(d) THEN <<TRUE, YearMonth(d)>>
    ELSE <<FALSE, ur.last_full_ym>>

\* (full_all, new_last_full_ym)
should_send_full_all(ur, d) ==
    IF ur.last_full_ym = Empty THEN <<TRUE, YearMonth(d)>>
    ELSE IF d[3] = 1 /\ ur.last_full_ym # YearMonth(d) THEN <<TRUE, YearMonth(d)>>
    ELSE <<FALSE, ur.last_full_ym>>

\* the message sent to the user; for a forecast, od, lg, lm and ld are the
\* texts it holds for the general day, the personal year, the personal
\* month and the personal day ("none" for a message that is no forecast)
Msg(kind, full, birth, day) ==
    [kind |-> kind, full |-> full, birth |-> birth, day |-> day,
     od |-> "none", lg |-> "none", lm |-> "none", ld |-> "none"]

NoMsg == Msg("none", FALSE, None, None)

\* format_forecast of the first program: (text, new_last_full_ym)
\* GENERAL_DAY_FULL, PERSONAL_*_FULL and PERSONAL_*_SHORT have every key
\* 1..9 and reduce_1_9 returns 1..9, so every text looked up is there.
format_forecast1(d, birth, ur) ==
    LET r == should_send_full_all(ur, d)
        full_all == r[1]
    IN <<[Msg("forecast", full_all, birth, d) EXCEPT
             !.od = "description",
             !.lg = IF full_all THEN "full" ELSE "short",
             !.lm = IF full_all THEN "full" ELSE "short",
             !.ld = "full"],
         r[2]>>

\* the outcome of a handler: the sheet it leaves and the message it sends
Out(s, m) == [sheet |-> s, msg |-> m]

\* ---------------------------------------------------------------- handlers
Now == IsoDateTime(today)

\* date.today()
LocalToday == today

WithProfile1(ur, u) ==
    [ur EXCEPT !.username = u.username,
               !.first_name = u.first_name,
               !.last_name = u.last_name]

\* mutant of FillCreated1: created_at and registered_on are stamped anew
FillCreated1_restamp(ur) ==
    [ur EXCEPT !.created_at = Now,
               !.registered_on = IsoDate(LocalToday)]

FillCreated1(ur) ==
    [ur EXCEPT !.created_at = IF @ = Empty THEN Now ELSE @,
               !.registered_on = IF @ = Empty THEN IsoDate(LocalToday) ELSE @]

\* mutant of IssueTrial1: every call starts a new trial
IssueTrial1_renew(ur) ==
    [ur EXCEPT !.plan = "trial",
               !.trial_expires = IsoDate(AddDays(LocalToday, TRIAL_DAYS))]

IssueTrial1(ur) ==
    IF ur.trial_expires = Empty
    THEN [ur EXCEPT !.plan = "trial",
                    !.trial_expires = IsoDate(AddDays(LocalToday, TRIAL_DAYS))]
    ELSE ur

\* A handler of the first program is store.get, a computation on the
\* UserRow, one store.upsert and the reply: Body gives the UserRow written
\* and the message.
Body(ur, m) == [ur |-> ur, msg |-> m]

cmd_start1_body(ur0, u) ==
    Body(IssueTrial1(FillCreated1(WithProfile1([ur0 EXCEPT !.last_seen_at = Now], u))),
         Msg("welcome", FALSE, None, None))

cmd_status1_body(ur0) ==
    Body([ur0 EXCEPT !.last_seen_at = Now], Msg("status", FALSE, None, None))

\* mutant of cmd_today1_body: the month is recorded before any forecast is
\* made, also when the birth date is asked for
cmd_today1_body_speculative(ur0) ==
    LET ur == [ur0 EXCEPT !.last_seen_at = Now, !.last_full_ym = YearMonth(today)]
        b == parse_birth_date(ur.birth_date)
    IN IF ur.birth_date = Empty
       THEN Body(ur, Msg("ask_birth", FALSE, None, None))
       ELSE IF b = None
       THEN Body([ur EXCEPT !.birth_date = Empty], Msg("bad_birth", FALSE, None, None))
       ELSE Body(ur, format_forecast1(today, b, ur0)[1])

cmd_today1_body(ur0) ==
    LET ur == [ur0 EXCEPT !.last_seen_at = Now]
        b == parse_birth_date(ur.birth_date)
    IN IF ur.birth_date = Empty
       THEN Body(ur, Msg("ask_birth", FALSE, None, None))
       ELSE IF b = None
       THEN Body([ur EXCEPT !.birth_date = Empty], Msg("bad_birth", FALSE, None, None))
       ELSE LET f == format_forecast1(today, b, ur) IN
            Body([ur EXCEPT !.last_full_ym = f[2]], f[1])

\* mutant of handle_text1_body: the forecast is sent and last_full_ym is
\* not recorded
handle_text1_body_no_ym(ur0, u, txt) ==
    LET ur == FillCreated1(WithProfile1([ur0 EXCEPT !.last_seen_at = Now], u))
        b == parse_birth_date(txt)
    IN IF b # None
       THEN LET ur2 == IssueTrial1([ur EXCEPT !.birth_date = txt])
                f == format_forecast1(today, b, ur2)
            IN Body(ur2, f[1])
       ELSE Body(ur, Msg("prompt", FALSE, None, None))

handle_text1_body(ur0, u, txt) ==
    LET ur == FillCreated1(WithProfile1([ur0 EXCEPT !.last_seen_at = Now], u))
        b == parse_birth_date(txt)
    IN IF b # None
       THEN LET ur2 == IssueTrial1([ur EXCEPT !.birth_date = txt])
                f == format_forecast1(today, b, ur2)
            IN Body([ur2 EXCEPT !.last_full_ym = f[2]], f[1])
       ELSE Body(ur, Msg("prompt", FALSE, None, None))

\* store.get, the body, store.upsert
Handler1(s, uid, body(_)) ==
    LET g == get(s, uid)
        r == body(g.ur)
    IN Out(upsert(g.sheet, r.ur), r.msg)

cmd_start1(s, uid, u) ==
    LET body(ur) == cmd_start1_body(ur, u) IN Handler1(s, uid, body)

cmd_help1(s) == Out(s, Msg("help", FALSE, None, None))

cmd_premium1(s) == Out(s, Msg("premium", FALSE, None, None))

cmd_status1(s, uid) == Handler1(s, uid, cmd_status1_body)

cmd_today1(s, uid) == Handler1(s, uid, cmd_today1_body)

handle_text1(s, uid, u, txt) ==
    LET body(ur) == handle_text1_body(ur, u, txt) IN Handler1(s, uid, body)

\* ------------------------------------------------------- daily broadcast
\* an id cell whose text int() rejects
NonIntegerId == -1

\* the four columns job_daily_broadcast reads before its loop
Snapshot(s) ==
    [i \in 1..Len(s) |->
        [ id |-> s[i].telegram_user_id,
          status |-> s[i].status,
          birth |-> s[i].birth_date,
          lfy |-> s[i].last_full_ym ]]

\* does the loop body reach send_message for entry i (1-based) of the columns
Sendable(cols, i) ==
    LET status == IF cols[i].status = "" THEN "active" ELSE cols[i].status IN
    /\ cols[i].id # NonIntegerId
    /\ status = "active"
    /\ cols[i].birth # Empty
    /\ parse_birth_date(cols[i].birth) # None

\* the first entry from i on that is sent to; 0 when the loop runs out
NextSend(cols, i) ==
    IF \E j \in i..Len(cols) : Sendable(cols, j)
    THEN CHOOSE j \in i..Len(cols) :
            Sendable(cols, j) /\ \A k \in i..(j - 1) : ~Sendable(cols, k)
    ELSE 0

\* ws.update_cell(row_idx, 12, value)
update_cell_12(s, row_idx, value) ==
    IF row_idx - 1 \in 1..Len(s)
    THEN [s EXCEPT ![row_idx - 1].last_full_ym = value]
    ELSE s

\* the loop from entry i up to its next await (send_message) or its end
BroadcastRun(s, cols, i, day) ==
    LET j == NextSend(cols, i) IN
    IF j = 0
    THEN [sheet |-> s, bc |-> [pc |-> "idle", i |-> 0, cols |-> <<>>, day |-> None],
          uid |-> 0, msg |-> NoMsg]
    ELSE LET ur == [UserRow(cols[j].id) EXCEPT
                        !.status = "active",
                        !.birth_date = cols[j].birth,
                        !.last_full_ym = cols[j].lfy]
             f == format_forecast1(day, parse_birth_date(cols[j].birth), ur)
         IN [sheet |-> IF f[2] # ur.last_full_ym
                       THEN update_cell_12(s, (j - 1) + 2, f[2]) ELSE s,
             bc |-> [pc |-> "send", i |-> j, cols |-> cols, day |-> day],
             uid |-> cols[j].id, msg |-> f[1]]

\* ======================================================================
\* Second program: SheetsStore
\* ======================================================================

\* the first sheet row (>= 2) whose stripped id cell equals str(user_id); 0 is None
_find_row_index_by_user_id(s, user_id) ==
    IF ~enabled THEN 0
    ELSE IF \E i \in 1..Len(s) : s[i].telegram_user_id = user_id
    THEN 1 + CHOOSE i \in 1..Len(s) :
                /\ s[i].telegram_user_id = user_id
                /\ \A j \in 1..(i - 1) : s[j].telegram_user_id # user_id
    ELSE 0

\* SheetsStore.get_user, the row found: UserRow(...) built from row_values(idx)
ReadRow2(data) ==
    [ telegram_user_id |-> data.telegram_user_id,
      status |-> IF data.status = "" THEN "active" ELSE data.status,
      plan |-> IF data.plan = "" THEN "trial" ELSE data.plan,
      trial_expires |-> data.trial_expires,
      birth_date |-> data.birth_date,
      created_at |-> data.created_at,
      last_seen_at |-> data.last_seen_at,
      username |-> data.username,
      first_name |-> data.first_name,
      last_name |-> data.last_name,
      registered_on |-> data.registered_on,
      last_full_ym |-> data.last_full_ym ]

\* SheetsStore.get_user: a UserRow, or None
get_user(s, user_id) ==
    IF ~enabled THEN None
    ELSE LET idx == _find_row_index_by_user_id(s, user_id) IN
         IF idx = 0 THEN None
         ELSE ReadRow2(s[idx - 1])

upsert_user(s, u) ==
    IF ~enabled THEN s
    ELSE LET idx == _find_row_index_by_user_id(s, u.telegram_user_id) IN
         IF idx # 0 THEN [s EXCEPT ![idx - 1] = u]
         ELSE Append(s, u)

\* now_iso(), today_date(), ym(d)
now_iso == IsoDateTime(today)
today_date == today
ym(d) == YearMonth(d)

should_send_full_for_lg_lm(user, d) ==
    IF d[3] = 1 THEN TRUE
    ELSE IF user.last_full_ym = Empty THEN TRUE
    ELSE user.last_full_ym # ym(d)

\* format_forecast of the second program
\* mutant of format_forecast2: the personal year and month are always short
format_forecast2_short(birth, d, full_lg_lm) ==
    [Msg("forecast", full_lg_lm, birth, d) EXCEPT
        !.od = IF d[3] \in {10, 20, 30} THEN "warning" ELSE "description",
        !.lg = "short",
        !.lm = "short",
        !.ld = "full"]

format_forecast2(birth, d, full_lg_lm) ==
    LET is_10_20_30 == d[3] \in {10, 20, 30} IN
    [Msg("forecast", full_lg_lm, birth, d) EXCEPT
        !.od = IF is_10_20_30 THEN "warning" ELSE "description",
        !.lg = IF full_lg_lm THEN "full" ELSE "short",
        !.lm = IF full_lg_lm THEN "full" ELSE "short",
        !.ld = "full"]

Or(a, b) == IF a # "" THEN a ELSE b

\* upsert_from_update between get_user and upsert_user: the UserRow it
\* writes and returns, from what get_user found
Existing2(found, uid, user) ==
    LET e0 == IF found = None THEN UserRow(uid) ELSE found IN
    [e0 EXCEPT
        !.created_at = IF @ = Empty THEN now_iso ELSE @,
        !.registered_on = IF @ = Empty THEN IsoDate(today_date) ELSE @,
        !.last_seen_at = now_iso,
        !.username = Or(user.username, @),
        !.first_name = Or(user.first_name, @),
        !.last_name = Or(user.last_name, @)]

\* the sheet after the call and the UserRow it returns
upsert_from_update(s, uid, user) ==
    LET existing == Existing2(get_user(s, uid), uid, user)
    IN [sheet |-> upsert_user(s, existing), ur |-> existing]

\* datetime.fromisoformat(created_iso).date() + 7 days, today when that raises
trial_expire_default(created_iso) ==
    LET d == IF Len(created_iso) = 4 /\ created_iso[1] \in {"iso", "isodt"}
             THEN DateOfIso(created_iso) ELSE today_date
    IN IsoDate(AddDays(d, 7))

\* What a handler of the second program does after upsert_from_update
\* returned u: the UserRows it passes to STORE.upsert_user, in order, and
\* its reply.
Body2(writes, m) == [writes |-> writes, msg |-> m]

cmd_start2_body(u0) ==
    LET issue == u0.plan = "trial" /\ u0.trial_expires = Empty
        u == IF issue
             THEN [u0 EXCEPT !.trial_expires = trial_expire_default(u0.created_at)]
             ELSE u0
    IN Body2(IF issue THEN <<u>> ELSE <<>>,
             IF u.birth_date # Empty /\ parse_birth_date(u.birth_date) # None
             THEN Msg("registered", FALSE, None, None)
             ELSE Msg("welcome", FALSE, None, None))

\* mutant of cmd_today2_body: the empty birth date is not told apart from
\* a broken one
cmd_today2_body_no_empty_check(u) ==
    LET b == parse_birth_date(u.birth_date)
        t == today_date
        full_lg_lm == should_send_full_for_lg_lm(u, t)
    IN IF b = None
       THEN Body2(<<>>, Msg("bad_birth", FALSE, None, None))
       ELSE Body2(IF full_lg_lm THEN <<[u EXCEPT !.last_full_ym = ym(t)]>> ELSE <<>>,
                  format_forecast2(b, t, full_lg_lm))

cmd_today2_body(u) ==
    LET b == parse_birth_date(u.birth_date)
        t == today_date
        full_lg_lm == should_send_full_for_lg_lm(u, t)
    IN IF u.birth_date = Empty
       THEN Body2(<<>>, Msg("ask_birth", FALSE, None, None))
       ELSE IF b = None
       THEN Body2(<<>>, Msg("bad_birth", FALSE, None, None))
       ELSE Body2(IF full_lg_lm THEN <<[u EXCEPT !.last_full_ym = ym(t)]>> ELSE <<>>,
                  format_forecast2(b, t, full_lg_lm))

cmd_status2_body(u) == Body2(<<>>, Msg("status", FALSE, None, None))

\* mutant of cmd_setbirth2_body: last_full_ym is left as it is
cmd_setbirth2_body_keep_ym(u) ==
    Body2(<<[u EXCEPT !.birth_date = Empty]>>,
          Msg("setbirth", FALSE, None, None))

cmd_setbirth2_body(u) ==
    Body2(<<[u EXCEPT !.birth_date = Empty, !.last_full_ym = Empty]>>,
          Msg("setbirth", FALSE, None, None))

\* mutant of on_text2_body: the forecast is sent and the birth date is not
\* stored
on_text2_body_no_store(u, text) ==
    LET d == parse_birth_date(text) IN
    IF d # None
    THEN Body2(<<[u EXCEPT !.last_full_ym = ym(today_date)]>>,
               format_forecast2(d, today_date, TRUE))
    ELSE Body2(<<>>, Msg("unknown", FALSE, None, None))

\* on_text from the parse of the text on (the text is no button)
on_text2_body(u, text) ==
    LET d == parse_birth_date(text) IN
    IF d # None
    THEN LET u1 == [u EXCEPT !.birth_date = FormatDmy(d), !.last_full_ym = Empty]
             u2 == IF u1.plan = "trial" /\ u1.trial_expires = Empty
                   THEN [u1 EXCEPT !.trial_expires = trial_expire_default(u1.created_at)]
                   ELSE u1
             t == today_date
         IN Body2(<<u2, [u2 EXCEPT !.last_full_ym = ym(t)]>>, format_forecast2(d, t, TRUE))
    ELSE Body2(<<>>, Msg("unknown", FALSE, None, None))

RECURSIVE UpsertAll(_, _)
\* STORE.upsert_user of each UserRow in turn
UpsertAll(s, writes) ==
    IF writes = <<>> THEN s
    ELSE UpsertAll(upsert_user(s, Head(writes)), Tail(writes))

\* upsert_from_update, the body, its writes
Handler2(s, uid, user, body(_)) ==
    LET r == upsert_from_update(s, uid, user)
        b == body(r.ur)
    IN Out(UpsertAll(r.sheet, b.writes), b.msg)

cmd_start2(s, uid, user) == Handler2(s, uid, user, cmd_start2_body)

cmd_today2(s, uid, user) == Handler2(s, uid, user, cmd_today2_body)

cmd_status2(s, uid, user) == Handler2(s, uid, user, cmd_status2_body)

cmd_setbirth2(s, uid, user) == Handler2(s, uid, user, cmd_setbirth2_body)

send_help2(s) == Out(s, Msg("help", FALSE, None, None))

on_text2(s, uid, user, text) ==
    LET r == upsert_from_update(s, uid, user) IN
    IF text = BtnToday THEN cmd_today2(r.sheet, uid, user)
    ELSE IF text = BtnStatus THEN cmd_status2(r.sheet, uid, user)
    ELSE IF text = BtnSetBirth THEN cmd_setbirth2(r.sheet, uid, user)
    ELSE IF text = BtnHelp THEN send_help2(r.sheet)
    ELSE LET body(u) == on_text2_body(u, text) IN Handler2(s, uid, user, body)

\* ======================================================================
\* Steps
\* ======================================================================
BcIdle == [pc |-> "idle", i |-> 0, cols |-> <<>>, day |-> None]

Idle == [seq |-> 0, uid |-> 0, ev |-> "none", txt |-> Empty, msg |-> NoMsg]

NoCall == [written |-> None, read |-> None]

NoGrid == [header |-> <<>>, rows |-> <<>>]

NoNums == [of |-> "none", n |-> 0, birth |-> None, day |-> None,
           od |-> 0, py |-> 0, pm |-> 0, pd |-> 0]

Init ==
    /\ prog \in {1, 2}
    /\ enabled \in BOOLEAN
    /\ sheet = <<>>
    /\ today = Day0
    /\ bc = BcIdle
    /\ bcDay = None
    /\ last = Idle
    /\ steps = 0
    /\ tasks = <<>>
    /\ turn = 0
    /\ call = NoCall
    /\ grid = NoGrid
    /\ fault = "none"
    /\ nums = NoNums
    /\ sent = <<>>

\* a handler ran to its reply
Handled(uid, ev, txt, out) ==
    /\ steps < MaxSteps
    /\ steps' = steps + 1
    /\ sheet' = out.sheet
    /\ last' = [seq |-> 1 - last.seq, uid |-> uid, ev |-> ev, txt |-> txt,
                msg |-> out.msg]
    /\ UNCHANGED <<prog, enabled, today, bc, bcDay, tasks, turn, call, grid, fault, nums, sent>>

CmdStart1(uid, u) == prog = 1 /\ Handled(uid, "start", Empty, cmd_start1(sheet, uid, u))
CmdHelp1(uid) == prog = 1 /\ Handled(uid, "help", Empty, cmd_help1(sheet))
CmdPremium1(uid) == prog = 1 /\ Handled(uid, "premium", Empty, cmd_premium1(sheet))
CmdStatus1(uid) == prog = 1 /\ Handled(uid, "status", Empty, cmd_status1(sheet, uid))
CmdToday1(uid) == prog = 1 /\ Handled(uid, "today", Empty, cmd_today1(sheet, uid))
HandleText1(uid, u, txt) ==
    prog = 1 /\ Handled(uid, "text", txt, handle_text1(sheet, uid, u, txt))

BroadcastStep(r) ==
    /\ steps < MaxSteps
    /\ steps' = steps + 1
    /\ sheet' = r.sheet
    /\ bc' = r.bc
    /\ last' = IF r.uid = 0 THEN [Idle EXCEPT !.seq = 1 - last.seq]
               ELSE [seq |-> 1 - last.seq, uid |-> r.uid, ev |-> "broadcast",
                     txt |-> Empty, msg |-> r.msg]
    /\ UNCHANGED <<prog, enabled, today, tasks, turn, call, grid, fault, nums, sent>>

\* job_daily_broadcast from its start to its first await
BroadcastStart ==
    /\ prog = 1 /\ enabled
    /\ bc.pc = "idle" /\ bcDay # today
    /\ bcDay' = today
    /\ BroadcastStep(BroadcastRun(sheet, Snapshot(sheet), 1, today))

CmdStart2(uid, u) == prog = 2 /\ Handled(uid, "start", Empty, cmd_start2(sheet, uid, u))
CmdToday2(uid, u) == prog = 2 /\ Handled(uid, "today", Empty, cmd_today2(sheet, uid, u))
CmdStatus2(uid, u) == prog = 2 /\ Handled(uid, "status", Empty, cmd_status2(sheet, uid, u))
CmdSetBirth2(uid, u) == prog = 2 /\ Handled(uid, "setbirth", Empty, cmd_setbirth2(sheet, uid, u))
CmdHelp2(uid) == prog = 2 /\ Handled(uid, "help", Empty, send_help2(sheet))
OnText2(uid, u, text) == prog = 2 /\ Handled(uid, "text", text, on_text2(sheet, uid, u, text))

\* send_message returned or raised: the loop goes on to its next await
BroadcastResume ==
    /\ bc.pc = "send"
    /\ UNCHANGED bcDay
    /\ BroadcastStep(BroadcastRun(sheet, bc.cols, bc.i + 1, bc.day))

\* The sheet is also edited by hand: premium is switched on manually
\* (cmd_premium), a user is switched off in the status column, which no
\* handler writes, and a birth date can be typed into a row.
AdminEdits ==
    { <<"status", "blocked">>, <<"plan", "premium">>, <<"birth_date", BirthText>> }

AdminEdit(uid, e) ==
    /\ steps < MaxSteps
    /\ steps' = steps + 1
    /\ \E i \in 1..Len(sheet) :
          /\ sheet[i].telegram_user_id = uid
          /\ sheet[i][e[1]] # e[2]
          /\ sheet' = [sheet EXCEPT ![i][e[1]] = e[2]]
    /\ last' = [Idle EXCEPT !.seq = 1 - last.seq]
    /\ UNCHANGED <<prog, enabled, today, bc, bcDay, tasks, turn, call, grid, fault, nums, sent>>

\* the clock moves on
Tick(k) ==
    /\ steps < MaxSteps
    /\ steps' = steps + 1
    /\ today' = AddDays(today, k)
    /\ last' = [Idle EXCEPT !.seq = 1 - last.seq]
    /\ UNCHANGED <<prog, enabled, sheet, bc, bcDay, tasks, turn, call, grid, fault, nums, sent>>

Next ==
    \/ \E uid \in Users : CmdStart1(uid, Profile(uid))
    \/ \E uid \in Users : CmdHelp1(uid)
    \/ \E uid \in Users : CmdPremium1(uid)
    \/ \E uid \in Users : CmdStatus1(uid)
    \/ \E uid \in Users : CmdToday1(uid)
    \/ \E uid \in Users, txt \in Texts1 : HandleText1(uid, Profile(uid), txt)
    \/ \E uid \in Users : CmdStart2(uid, Profile(uid))
    \/ \E uid \in Users : CmdToday2(uid, Profile(uid))
    \/ \E uid \in Users : CmdStatus2(uid, Profile(uid))
    \/ \E uid \in Users : CmdSetBirth2(uid, Profile(uid))
    \/ \E uid \in Users : CmdHelp2(uid)
    \/ \E uid \in Users, text \in Texts2 : OnText2(uid, Profile(uid), text)
    \/ \E uid \in Users, e \in AdminEdits : AdminEdit(uid, e)
    \/ BroadcastStart
    \/ BroadcastResume
    \/ \E k \in TickJumps : Tick(k)

Spec == Init /\ [][Next]_vars

\* ======================================================================
\* Handlers as coroutines of one event loop
\* ======================================================================
\* Above, a handler is one step: its gspread calls are blocking calls made
\* with no await between them, so the event loop runs them back to back.
\* Here the same handlers are taken one gspread call at a time, several of
\* them in flight, and the loop hands over only where a coroutine awaits.
\* pc names the call a coroutine makes next:
\*   get_find   col_values(1) of SheetStore.get / SheetsStore.get_user
\*   get_read   row_values(idx) of the row found
\*   w_find     col_values(1) of upsert / upsert_user
\*   w_write    append_row or update of upsert / upsert_user
\*   reply      await reply_text / send_message
\*   done

\* mutant of AwaitPoints: every sheet call is awaited
AwaitPointsEveryCall == {"get_read", "w_find", "w_write", "reply"}

\* the calls at which a handler is suspended in an await
AwaitPoints == {"reply"}

RaceCommands1 == {"start", "today", "status"}
RaceCommands2 == {"start", "today", "status", "setbirth"}
RaceTexts1 == {BirthText, FreeText}
RaceTexts2 == {BirthText, BtnStatus, BtnHelp}

Task(uid, ev, txt) ==
    [ uid |-> uid, ev |-> ev, txt |-> txt, pc |-> "get_find", idx |-> 0,
      writes |-> <<>>, msg |-> NoMsg, first |-> ~(\E i \in 1..Len(sheet) :
                                                  sheet[i].telegram_user_id = uid) ]

\* the body of the first program's handler for the update
TaskBody1(tk, ur) ==
    IF tk.ev = "start" THEN cmd_start1_body(ur, Profile(tk.uid))
    ELSE IF tk.ev = "status" THEN cmd_status1_body(ur)
    ELSE IF tk.ev = "today" THEN cmd_today1_body(ur)
    ELSE handle_text1_body(ur, Profile(tk.uid), tk.txt)

\* the body of the second program's handler for the update
TaskBody2(tk, u) ==
    IF tk.ev = "start" THEN cmd_start2_body(u)
    ELSE IF tk.ev = "status" THEN cmd_status2_body(u)
    ELSE IF tk.ev = "today" THEN cmd_today2_body(u)
    ELSE IF tk.ev = "setbirth" THEN cmd_setbirth2_body(u)
    ELSE on_text2_body(u, tk.txt)

\* on_text of the second program hands a button to its command handler,
\* which starts with upsert_from_update again
ButtonCommand(txt) ==
    IF txt = BtnToday THEN "today"
    ELSE IF txt = BtnStatus THEN "status"
    ELSE IF txt = BtnSetBirth THEN "setbirth"
    ELSE "help"

IsButton(tk) == prog = 2 /\ tk.ev = "text" /\ tk.txt \in {BtnToday, BtnStatus, BtnSetBirth, BtnHelp}

\* where a coroutine goes once the writes it had to make are made
AfterWrites(tk) ==
    IF IsButton(tk)
    THEN IF tk.txt = BtnHelp
         THEN [tk EXCEPT !.pc = "reply", !.msg = Msg("help", FALSE, None, None)]
         ELSE [tk EXCEPT !.ev = ButtonCommand(tk.txt), !.pc = "get_find"]
    ELSE [tk EXCEPT !.pc = "reply"]

\* the rows to write and the reply, once the UserRow is in hand
\* (found = None: no row was found)
Planned(tk, found) ==
    IF prog = 1
    THEN LET ur == IF found = None THEN NewUserRow1(tk.uid) ELSE found
             b == TaskBody1(tk, ur)
         IN [tk EXCEPT !.writes = IF found = None THEN <<ur, b.ur>> ELSE <<b.ur>>,
                       !.msg = b.msg, !.pc = "w_find"]
    ELSE LET e == Existing2(found, tk.uid, Profile(tk.uid))
             b == IF IsButton(tk) THEN Body2(<<>>, NoMsg) ELSE TaskBody2(tk, e)
         IN [tk EXCEPT !.writes = <<e>> \o b.writes, !.msg = b.msg, !.pc = "w_find"]

\* one call of the coroutine tk: the task and the sheet after it
TaskCall(tk, s) ==
    IF ~enabled /\ tk.pc = "get_find"
    THEN \* a store that is off makes no call: get and upsert return at once
         LET pl == Planned(tk, None) IN
         [task |-> AfterWrites([pl EXCEPT !.writes = <<>>]), sheet |-> s]
    ELSE IF tk.pc = "get_find"
    THEN LET idx == IF prog = 1 THEN _find_row(s, tk.uid)
                    ELSE _find_row_index_by_user_id(s, tk.uid)
         IN IF idx = 0 THEN [task |-> Planned(tk, None), sheet |-> s]
            ELSE [task |-> [tk EXCEPT !.idx = idx, !.pc = "get_read"], sheet |-> s]
    ELSE IF tk.pc = "get_read"
    THEN [task |-> Planned(tk, IF prog = 1 THEN ReadRow1(s[tk.idx - 1])
                                ELSE ReadRow2(s[tk.idx - 1])),
          sheet |-> s]
    ELSE IF tk.pc = "w_find"
    THEN [task |-> [tk EXCEPT !.pc = "w_write",
                              !.idx = IF prog = 1 THEN _find_row(s, tk.uid)
                                      ELSE _find_row_index_by_user_id(s, tk.uid)],
          sheet |-> s]
    ELSE IF tk.pc = "w_write"
    THEN LET rest == [tk EXCEPT !.writes = Tail(tk.writes)] IN
         [task |-> IF rest.writes = <<>> THEN AfterWrites(rest)
                   ELSE [rest EXCEPT !.pc = "w_find"],
          sheet |-> IF tk.idx = 0 THEN Append(s, Head(tk.writes))
                    ELSE [s EXCEPT ![tk.idx - 1] = Head(tk.writes)]]
    ELSE [task |-> [tk EXCEPT !.pc = "done"], sheet |-> s]

\* an update comes in and the loop starts its handler
Arrive(uid, ev, txt) ==
    /\ turn = 0
    /\ Len(tasks) < MaxTasks
    /\ tasks' = Append(tasks, Task(uid, ev, txt))
    /\ UNCHANGED <<prog, enabled, sheet, today, bc, bcDay, last, steps, turn, call, grid, fault, nums, sent>>

Arrive1(uid, ev) == prog = 1 /\ Arrive(uid, ev, Empty)
ArriveText1(uid, txt) == prog = 1 /\ Arrive(uid, "text", txt)
Arrive2(uid, ev) == prog = 2 /\ Arrive(uid, ev, Empty)
ArriveText2(uid, txt) == prog = 2 /\ Arrive(uid, "text", txt)

\* the coroutine i makes its next call; it keeps the loop unless the call
\* it comes to is one it awaits
Call(i) ==
    /\ turn \in {0, i}
    /\ tasks[i].pc # "done"
    /\ LET r == TaskCall(tasks[i], sheet) IN
       /\ tasks' = [tasks EXCEPT ![i] = r.task]
       /\ sheet' = r.sheet
       /\ turn' = IF r.task.pc \in AwaitPoints \cup {"done"} THEN 0 ELSE i
       /\ last' = IF r.task.pc = "done"
                  THEN [seq |-> 1 - last.seq, uid |-> r.task.uid, ev |-> r.task.ev,
                        txt |-> r.task.txt, msg |-> r.task.msg]
                  ELSE last
    /\ UNCHANGED <<prog, enabled, today, bc, bcDay, steps, call, grid, fault, nums, sent>>

NextRace ==
    \/ \E uid \in Users, ev \in RaceCommands1 : Arrive1(uid, ev)
    \/ \E uid \in Users, txt \in RaceTexts1 : ArriveText1(uid, txt)
    \/ \E uid \in Users, ev \in RaceCommands2 : Arrive2(uid, ev)
    \/ \E uid \in Users, txt \in RaceTexts2 : ArriveText2(uid, txt)
    \/ \E i \in 1..Len(tasks) : Call(i)

SpecRace == Init /\ [][NextRace]_vars

\* ======================================================================
\* The store used directly: write a UserRow, read the id back
\* ======================================================================
\* the UserRows written: optional fields empty or filled
StoreRows ==
    { [UserRow(uid) EXCEPT !.created_at = times[1],
                           !.last_seen_at = times[1],
                           !.registered_on = times[2],
                           !.birth_date = birth,
                           !.last_full_ym = lfy] :
        uid \in Users,
        times \in {<<Empty, Empty>>, <<IsoDateTime(Day0), IsoDate(Day0)>>},
        birth \in {Empty, BirthText},
        lfy \in {Empty, YearMonth(Day0)} }

\* store.upsert(ur), then store.get(ur.telegram_user_id)
RoundTrip1(ur) ==
    /\ prog = 1
    /\ LET g == get(upsert(sheet, ur), ur.telegram_user_id) IN
       /\ sheet' = g.sheet
       /\ call' = [written |-> ur, read |-> g.ur]
    /\ UNCHANGED <<prog, enabled, today, bc, bcDay, last, steps, tasks, turn, grid, fault, nums, sent>>

\* STORE.upsert_user(u), then STORE.get_user(u.telegram_user_id)
RoundTrip2(u) ==
    /\ prog = 2
    /\ sheet' = upsert_user(sheet, u)
    /\ call' = [written |-> u, read |-> get_user(sheet', u.telegram_user_id)]
    /\ UNCHANGED <<prog, enabled, today, bc, bcDay, last, steps, tasks, turn, grid, fault, nums, sent>>

NextStore ==
    \/ \E ur \in StoreRows : RoundTrip1(ur)
    \/ \E u \in StoreRows : RoundTrip2(u)

SpecStore == Init /\ [][NextStore]_vars

\* ======================================================================
\* The worksheet cell by cell: header row and positions
\* ======================================================================
COLUMNS ==
    << "telegram_user_id", "status", "plan", "trial_expires", "birth_date",
       "created_at", "last_seen_at", "username", "first_name", "last_name",
       "registered_on", "last_full_ym" >>

\* the index of a column name in a header row
ColumnOf(header, name) == CHOOSE i \in 1..Len(header) : header[i] = name

\* a header row with two of its columns exchanged
Exchanged(header, a, b) ==
    [i \in 1..Len(header) |->
        IF header[i] = a THEN b ELSE IF header[i] = b THEN a ELSE header[i]]

\* the header rows a sheet is found with: as the program writes it, with
\* known columns in another order, and with a column added by hand
Headers ==
    { COLUMNS,
      Exchanged(COLUMNS, "trial_expires", "birth_date"),
      Exchanged(COLUMNS, "registered_on", "last_full_ym"),
      Append(COLUMNS, "note") }

NoteCell == <<"txt", 1>>

\* the records such a sheet holds
HeaderRows ==
    { [UserRow(uid) EXCEPT !.trial_expires = IsoDate(AddDays(Day0, TRIAL_DAYS)),
                           !.created_at = IsoDateTime(Day0),
                           !.last_seen_at = IsoDateTime(Day0),
                           !.registered_on = IsoDate(Day0),
                           !.birth_date = birth,
                           !.last_full_ym = lfy] :
        uid \in Users, birth \in {Empty, BirthText}, lfy \in {Empty, YearMonth(Day0)} }

\* the cells of a record laid out under a header row, each field under
\* its own name
LaidOut(ur, header) ==
    [i \in 1..Len(header) |-> IF header[i] = "note" THEN NoteCell ELSE ur[header[i]]]

\* the sheets with one row per user of a set of users, in any order
RECURSIVE RowLists(_, _)
RowLists(header, uids) ==
    IF uids = {} THEN { <<>> }
    ELSE UNION { { <<LaidOut(ur, header)>> \o rest :
                     ur \in {r \in HeaderRows : r.telegram_user_id = uid},
                     rest \in RowLists(header, uids \ {uid}) } : uid \in uids }

\* the list `row` / `values` that upsert and upsert_user write
RowList(ur) == [i \in 1..Len(COLUMNS) |-> ur[COLUMNS[i]]]

\* data = {COLUMNS[i]: values[i]} of get and get_user
DataOf(values) ==
    [c \in {COLUMNS[i] : i \in 1..Len(COLUMNS)} |-> values[ColumnOf(COLUMNS, c)]]

\* SheetStore._ensure_header: resize to len(COLUMNS) columns and write
\* COLUMNS into row 1 when row 1 is not COLUMNS
_ensure_header(g) ==
    IF g.header = COLUMNS THEN g
    ELSE [header |-> COLUMNS,
          rows |-> [i \in 1..Len(g.rows) |-> SubSeq(g.rows[i], 1, Len(COLUMNS))]]

\* SheetsStore.init: ws.update("A1", [COLUMNS]) when row 1 is not COLUMNS
init_header(g) ==
    IF g.header = COLUMNS THEN g
    ELSE [g EXCEPT !.header =
            [i \in 1..Len(g.header) |->
                IF i <= Len(COLUMNS) THEN COLUMNS[i] ELSE g.header[i]]]

\* col_values(1) searched for the id: the sheet row (>= 2), 0 is None
FindInColumnA(g, uid) ==
    IF \E i \in 1..Len(g.rows) : g.rows[i][1] = uid
    THEN 1 + CHOOSE i \in 1..Len(g.rows) :
                /\ g.rows[i][1] = uid
                /\ \A j \in 1..(i - 1) : g.rows[j][1] # uid
    ELSE 0

\* append_row(row) / update("A{row_idx}", [row]): the 12 values go to the
\* first 12 cells of the row
WriteRowList(g, row_idx, ur) ==
    IF row_idx = 0
    THEN [g EXCEPT !.rows = Append(@,
             [i \in 1..Len(g.header) |->
                 IF i <= Len(COLUMNS) THEN RowList(ur)[i] ELSE Empty])]
    ELSE [g EXCEPT !.rows[row_idx - 1] =
             [i \in 1..Len(@) |-> IF i <= Len(COLUMNS) THEN RowList(ur)[i] ELSE @[i]]]

\* SheetStore.upsert on the cells
UpsertCells1(g, ur) ==
    LET g1 == _ensure_header(g) IN
    WriteRowList(g1, FindInColumnA(g1, ur.telegram_user_id), ur)

\* SheetStore.get on the cells: the sheet after the call and the UserRow
GetCells1(g, uid) ==
    LET row_idx == FindInColumnA(g, uid) IN
    IF row_idx = 0
    THEN [grid |-> UpsertCells1(g, NewUserRow1(uid)), ur |-> NewUserRow1(uid)]
    ELSE [grid |-> g, ur |-> ReadRow1(DataOf(g.rows[row_idx - 1]))]

\* SheetsStore.get_user and upsert_user on the cells
GetCells2(g, uid) ==
    LET idx == FindInColumnA(g, uid) IN
    IF idx = 0 THEN None ELSE ReadRow2(DataOf(g.rows[idx - 1]))

UpsertCells2(g, u) == WriteRowList(g, FindInColumnA(g, u.telegram_user_id), u)

\* one run of job_daily_broadcast on the cells: columns 1, 2, 5 and 12
\* are read, update_cell(row_idx, 12, ...) is the write
BroadcastCells(g) ==
    [g EXCEPT !.rows =
        [i \in 1..Len(@) |->
            LET c == <<[id |-> @[i][1], status |-> @[i][2], birth |-> @[i][5],
                        lfy |-> @[i][12]]>>
                ur == [UserRow(c[1].id) EXCEPT !.last_full_ym = c[1].lfy]
            IN IF Sendable(c, 1) /\ should_send_full_all(ur, today)[1]
               THEN [@[i] EXCEPT ![12] = should_send_full_all(ur, today)[2]]
               ELSE @[i]]]

InitHeader ==
    /\ prog \in {1, 2}
    /\ enabled = TRUE
    /\ sheet = <<>>
    /\ today = Day0
    /\ bc = BcIdle
    /\ bcDay = None
    /\ last = Idle
    /\ steps = 0
    /\ tasks = <<>>
    /\ turn = 0
    /\ call = NoCall
    /\ fault = "none"
    /\ nums = NoNums
    /\ sent = <<>>
    /\ \E header \in Headers, uids \in (SUBSET Users) \ {{}} :
          \E rows \in RowLists(header, uids) :
             grid = [header |-> header, rows |-> rows]

\* SheetStore._connect
Connect1 ==
    /\ prog = 1
    /\ grid' = _ensure_header(grid)
    /\ UNCHANGED <<prog, enabled, sheet, today, bc, bcDay, last, steps, tasks, turn, call, fault, nums, sent>>

\* SheetsStore.init
Connect2 ==
    /\ prog = 2
    /\ grid' = init_header(grid)
    /\ UNCHANGED <<prog, enabled, sheet, today, bc, bcDay, last, steps, tasks, turn, call, fault, nums, sent>>

\* cmd_status of the first program on the cells
StatusCells1(uid) ==
    /\ prog = 1
    /\ LET g == GetCells1(grid, uid)
           b == cmd_status1_body(g.ur)
       IN /\ grid' = UpsertCells1(g.grid, b.ur)
          /\ call' = [written |-> b.ur, read |-> g.ur]
    /\ UNCHANGED <<prog, enabled, sheet, today, bc, bcDay, last, steps, tasks, turn, fault, nums, sent>>

\* cmd_status of the second program on the cells
StatusCells2(uid) ==
    /\ prog = 2
    /\ LET found == GetCells2(grid, uid)
           existing == Existing2(found, uid, Profile(uid))
       IN /\ grid' = UpsertCells2(grid, existing)
          /\ call' = [written |-> existing, read |-> found]
    /\ UNCHANGED <<prog, enabled, sheet, today, bc, bcDay, last, steps, tasks, turn, fault, nums, sent>>

\* job_daily_broadcast of the first program on the cells
BroadcastOnCells ==
    /\ prog = 1
    /\ grid' = BroadcastCells(grid)
    /\ UNCHANGED <<prog, enabled, sheet, today, bc, bcDay, last, steps, tasks, turn, call, fault, nums, sent>>

NextHeader ==
    \/ Connect1
    \/ Connect2
    \/ \E uid \in Users : StatusCells1(uid)
    \/ \E uid \in Users : StatusCells2(uid)
    \/ BroadcastOnCells

SpecHeader == InitHeader /\ [][NextHeader]_vars

\* ======================================================================
\* A store call that raises while an event is handled
\* ======================================================================
\* The gspread calls of a handler of the first program: those of
\* store.get and those of the store.upsert that ends the handler. None of
\* them is inside a try, so the exception leaves the handler there.
Faults1 == {"none", "get", "upsert"}

\* The gspread calls of upsert_from_update in the second program: the
\* id-column scan and the row read of get_user, the id-column scan and
\* the write of upsert_user. Each is inside a try that logs and goes on.
Faults2 == {"none", "get_find", "get_read", "upsert_find", "upsert_write"}

\* store.get, the body, store.upsert, with the call f raising
Handler1F(s, uid, body(_), f) ==
    IF f = "none" THEN Handler1(s, uid, body)
    ELSE IF f = "get" THEN Out(s, NoMsg)
    ELSE Out(get(s, uid).sheet, NoMsg)

\* SheetsStore.get_user with the call f raising: None after the except
get_user_f(s, user_id, f) ==
    IF f \in {"get_find", "get_read"} THEN None ELSE get_user(s, user_id)

\* SheetsStore.upsert_user with the call f raising: a scan that raised
\* gives idx = None and the row is appended, a write that raised is logged
upsert_user_f(s, u, f) ==
    IF f = "upsert_find" THEN Append(s, u)
    ELSE IF f = "upsert_write" THEN s
    ELSE upsert_user(s, u)

upsert_from_update_f(s, uid, user, f) ==
    LET existing == Existing2(get_user_f(s, uid, f), uid, user)
    IN [sheet |-> upsert_user_f(s, existing, f), ur |-> existing]

\* upsert_from_update with the call f raising, the body, its writes
Handler2F(s, uid, user, body(_), f) ==
    LET r == upsert_from_update_f(s, uid, user, f)
        b == body(r.ur)
    IN Out(UpsertAll(r.sheet, b.writes), b.msg)

on_text2_f(s, uid, user, text, f) ==
    LET r == upsert_from_update_f(s, uid, user, f) IN
    IF text = BtnToday THEN cmd_today2(r.sheet, uid, user)
    ELSE IF text = BtnStatus THEN cmd_status2(r.sheet, uid, user)
    ELSE IF text = BtnSetBirth THEN cmd_setbirth2(r.sheet, uid, user)
    ELSE IF text = BtnHelp THEN send_help2(r.sheet)
    ELSE LET body(u) == on_text2_body(u, text) IN Handler2F(s, uid, user, body, f)

InitFault == Init /\ enabled

\* a handler was entered and left, by its reply or by an exception
Faulted(uid, ev, txt, out, f) ==
    /\ steps < MaxSteps
    /\ steps' = steps + 1
    /\ sheet' = out.sheet
    /\ last' = [seq |-> 1 - last.seq, uid |-> uid, ev |-> ev, txt |-> txt,
                msg |-> out.msg]
    /\ fault' = f
    /\ UNCHANGED <<prog, enabled, today, bc, bcDay, tasks, turn, call, grid, nums, sent>>

FaultStart1(uid, u, f) ==
    /\ prog = 1
    /\ LET body(ur) == cmd_start1_body(ur, u) IN
       Faulted(uid, "start", Empty, Handler1F(sheet, uid, body, f), f)

FaultStatus1(uid, f) ==
    /\ prog = 1
    /\ Faulted(uid, "status", Empty, Handler1F(sheet, uid, cmd_status1_body, f), f)

FaultToday1(uid, f) ==
    /\ prog = 1
    /\ Faulted(uid, "today", Empty, Handler1F(sheet, uid, cmd_today1_body, f), f)

FaultText1(uid, u, txt, f) ==
    /\ prog = 1
    /\ LET body(ur) == handle_text1_body(ur, u, txt) IN
       Faulted(uid, "text", txt, Handler1F(sheet, uid, body, f), f)

FaultStart2(uid, u, f) ==
    /\ prog = 2
    /\ Faulted(uid, "start", Empty, Handler2F(sheet, uid, u, cmd_start2_body, f), f)

FaultToday2(uid, u, f) ==
    /\ prog = 2
    /\ Faulted(uid, "today", Empty, Handler2F(sheet, uid, u, cmd_today2_body, f), f)

FaultStatus2(uid, u, f) ==
    /\ prog = 2
    /\ Faulted(uid, "status", Empty, Handler2F(sheet, uid, u, cmd_status2_body, f), f)

FaultSetBirth2(uid, u, f) ==
    /\ prog = 2
    /\ Faulted(uid, "setbirth", Empty, Handler2F(sheet, uid, u, cmd_setbirth2_body, f), f)

FaultText2(uid, u, text, f) ==
    /\ prog = 2
    /\ Faulted(uid, "text", text, on_text2_f(sheet, uid, u, text, f), f)

NextFault ==
    \/ \E uid \in Users, f \in Faults1 : FaultStart1(uid, Profile(uid), f)
    \/ \E uid \in Users, f \in Faults1 : FaultStatus1(uid, f)
    \/ \E uid \in Users, f \in Faults1 : FaultToday1(uid, f)
    \/ \E uid \in Users, f \in Faults1, txt \in Texts1 :
          FaultText1(uid, Profile(uid), txt, f)
    \/ \E uid \in Users, f \in Faults2 : FaultStart2(uid, Profile(uid), f)
    \/ \E uid \in Users, f \in Faults2 : FaultToday2(uid, Profile(uid), f)
    \/ \E uid \in Users, f \in Faults2 : FaultStatus2(uid, Profile(uid), f)
    \/ \E uid \in Users, f \in Faults2 : FaultSetBirth2(uid, Profile(uid), f)
    \/ \E uid \in Users, f \in Faults2, text \in Texts2 :
          FaultText2(uid, Profile(uid), text, f)

SpecFault == InitFault /\ [][NextFault]_vars

\* ======================================================================
\* Numerology helpers
\* ======================================================================
RECURSIVE DigitSum(_)
\* sum(int(ch) for ch in str(n)); the zeros %d, %m and 02d pad with add 0
DigitSum(n) == IF n < 10 THEN n ELSE (n % 10) + DigitSum(n \div 10)

\* mutant of reduce_1_9: the remainder of the division by 9
reduce_mod_9(n) == n % 9

RECURSIVE reduce_1_9(_)
reduce_1_9(n) ==
    LET a == IF n < 0 THEN -n ELSE n IN
    IF a > 9 THEN reduce_1_9(DigitSum(a))
    ELSE IF a = 0 THEN 9 ELSE a

\* first program
general_day(d) == reduce_1_9(DigitSum(d[3]) + DigitSum(d[2]) + DigitSum(d[1]))

\* mutant of personal_year: the year of birth in place of the current year
personal_year_of_birth(birth, d) ==
    reduce_1_9(DigitSum(birth[3]) + DigitSum(birth[2]) + DigitSum(birth[1]))

personal_year(birth, d) ==
    reduce_1_9(DigitSum(birth[3]) + DigitSum(birth[2]) + DigitSum(d[1]))

personal_month(py, d) == reduce_1_9(py + d[2])

personal_day(pm, d) == reduce_1_9(pm + d[3])

\* second program
calc_personal_year(birth, t) == reduce_1_9(birth[3] + birth[2] + DigitSum(t[1]))

calc_personal_month(py, t) == reduce_1_9(py + t[2])

calc_personal_day(pm, t) == reduce_1_9(pm + t[3])

\* od of format_forecast in the second program
od2(t) == reduce_1_9(DigitSum(t[3]) + DigitSum(t[2]) + DigitSum(t[1]))

\* the calendar range the numbers are computed over
FirstYear == Day0[1]
NumYears == 1
BirthYear == FirstYear - 30
MaxN == 120

DaysOfYears(ys) ==
    {d \in ys \X (1..12) \X (1..31) : ValidDate(d[1], d[2], d[3])}

NumDays == DaysOfYears(FirstYear..(FirstYear + NumYears - 1))
NumBirths == DaysOfYears({BirthYear})

InitNum ==
    /\ prog \in {1, 2}
    /\ enabled = TRUE
    /\ sheet = <<>>
    /\ today \in NumDays
    /\ bc = BcIdle
    /\ bcDay = None
    /\ last = Idle
    /\ steps = 0
    /\ tasks = <<>>
    /\ turn = 0
    /\ call = NoCall
    /\ grid = NoGrid
    /\ fault = "none"
    /\ nums = NoNums
    /\ sent = <<>>

\* the four numbers of format_forecast, first program (one computation
\* is followed from each starting day)
DayNumbers1(birth) ==
    /\ prog = 1
    /\ nums = NoNums
    /\ sent = <<>>
    /\ LET od == general_day(today)
           py == personal_year(birth, today)
           pm == personal_month(py, today)
           pd == personal_day(pm, today)
       IN nums' = [of |-> "forecast", n |-> 0, birth |-> birth, day |-> today,
                   od |-> od, py |-> py, pm |-> pm, pd |-> pd]
    /\ UNCHANGED <<prog, enabled, sheet, today, bc, bcDay, last, steps, tasks, turn,
                   call, grid, fault, sent>>

\* the four numbers of format_forecast, second program
DayNumbers2(birth) ==
    /\ prog = 2
    /\ nums = NoNums
    /\ sent = <<>>
    /\ LET od == od2(today)
           py == calc_personal_year(birth, today)
           pm == calc_personal_month(py, today)
           pd == calc_personal_day(pm, today)
       IN nums' = [of |-> "forecast", n |-> 0, birth |-> birth, day |-> today,
                   od |-> od, py |-> py, pm |-> pm, pd |-> pd]
    /\ UNCHANGED <<prog, enabled, sheet, today, bc, bcDay, last, steps, tasks, turn,
                   call, grid, fault, sent>>

\* reduce_1_9(n) and reduce_1_9 of its result (the function is the same
\* in both programs)
Reduce(n) ==
    /\ nums = NoNums
    /\ sent = <<>>
    /\ nums' = [NoNums EXCEPT !.of = "reduce", !.n = n,
                              !.od = reduce_1_9(n),
                              !.py = reduce_1_9(reduce_1_9(n))]
    /\ UNCHANGED <<prog, enabled, sheet, today, bc, bcDay, last, steps, tasks, turn,
                   call, grid, fault, sent>>

NextNum ==
    \/ \E birth \in NumBirths : DayNumbers1(birth)
    \/ \E birth \in NumBirths : DayNumbers2(birth)
    \/ \E n \in 0..MaxN : Reduce(n)

SpecNum == InitNum /\ [][NextNum]_vars

\* ======================================================================
\* One run of job_daily_broadcast, send by send
\* ======================================================================
MaxRows == 2

\* the rows a sheet kept by the program and by hand holds on the morning
\* of a run
BroadcastRows ==
    { [UserRow(id) EXCEPT !.status = status, !.birth_date = birth] :
        id \in Users \cup {NonIntegerId},
        status \in {"active", "", "blocked"},
        birth \in {Empty, BirthText, ImpossibleText} }

RECURSIVE SheetsOf(_)
SheetsOf(n) ==
    IF n = 0 THEN { <<>> }
    ELSE SheetsOf(n - 1)
         \cup { Append(s, r) : s \in {x \in SheetsOf(n - 1) : Len(x) = n - 1},
                               r \in BroadcastRows }

\* mutant of LoopGoesOn: the exception of send_message leaves the loop
LoopGoesOn_unless_raised(raised) == ~raised

\* try: await send_message(...) except Exception: log.info(...)
LoopGoesOn(raised) == TRUE

InitBroadcast ==
    /\ prog = 1
    /\ enabled = TRUE
    /\ sheet \in SheetsOf(MaxRows) \ { <<>> }
    /\ today = Day0
    /\ bc = BcIdle
    /\ bcDay = None
    /\ last = Idle
    /\ steps = 0
    /\ tasks = <<>>
    /\ turn = 0
    /\ call = NoCall
    /\ grid = NoGrid
    /\ fault = "none"
    /\ nums = NoNums
    /\ sent = <<>>

\* the loop reached r: a send_message is awaited, or the run is over
RunTo(r) ==
    /\ sheet' = r.sheet
    /\ bc' = r.bc
    /\ last' = IF r.bc.pc = "idle" THEN [Idle EXCEPT !.seq = 1 - last.seq]
               ELSE [seq |-> 1 - last.seq, uid |-> r.uid, ev |-> "broadcast",
                     txt |-> Empty, msg |-> r.msg]
    /\ UNCHANGED <<prog, enabled, today, steps, tasks, turn, call, grid, fault, nums>>

\* job_daily_broadcast from its start to its first await
RunStart ==
    /\ prog = 1 /\ enabled
    /\ bc.pc = "idle" /\ bcDay # today
    /\ bcDay' = today
    /\ sent' = <<>>
    /\ RunTo(BroadcastRun(sheet, Snapshot(sheet), 1, today))

\* send_message returned or raised
SendEnds(raised) ==
    /\ bc.pc = "send"
    /\ sent' = Append(sent, [row |-> bc.i + 1, raised |-> raised])
    /\ UNCHANGED bcDay
    /\ IF LoopGoesOn(raised)
       THEN RunTo(BroadcastRun(sheet, bc.cols, bc.i + 1, bc.day))
       ELSE RunTo([sheet |-> sheet, bc |-> BcIdle, uid |-> 0, msg |-> NoMsg])

NextBroadcast ==
    \/ RunStart
    \/ \E raised \in BOOLEAN : SendEnds(raised)

SpecBroadcast == InitBroadcast /\ [][NextBroadcast]_vars

\* ======================================================================
\* Inbound events while job_daily_broadcast is suspended at a send
\* ======================================================================
MaxBetween == 1

\* rows of registered users, with and without a date of birth
BetweenRows ==
    { [UserRow(id) EXCEPT !.birth_date = birth] :
        id \in Users, birth \in {Empty, BirthText} }

RECURSIVE BetweenSheets(_)
BetweenSheets(n) ==
    IF n = 0 THEN { <<>> }
    ELSE BetweenSheets(n - 1)
         \cup { Append(s, r) : s \in {x \in BetweenSheets(n - 1) : Len(x) = n - 1},
                               r \in BetweenRows }

InitBetween ==
    /\ prog = 1
    /\ enabled = TRUE
    /\ sheet \in BetweenSheets(MaxRows) \ { <<>> }
    /\ today = Day0
    /\ bc = BcIdle
    /\ bcDay = None
    /\ last = Idle
    /\ steps = 0
    /\ tasks = <<>>
    /\ turn = 0
    /\ call = NoCall
    /\ grid = NoGrid
    /\ fault = "none"
    /\ nums = NoNums
    /\ sent = <<>>

\* the event loop is free for an update while send_message is awaited
Suspended == bc.pc = "send" /\ steps < MaxBetween

BetweenStart1(uid, u) == Suspended /\ CmdStart1(uid, u)
BetweenStatus1(uid) == Suspended /\ CmdStatus1(uid)
BetweenToday1(uid) == Suspended /\ CmdToday1(uid)
BetweenText1(uid, u, txt) == Suspended /\ HandleText1(uid, u, txt)

NextBetween ==
    \/ RunStart
    \/ \E raised \in BOOLEAN : SendEnds(raised)
    \/ \E uid \in Users : BetweenStart1(uid, Profile(uid))
    \/ \E uid \in Users : BetweenStatus1(uid)
    \/ \E uid \in Users : BetweenToday1(uid)
    \/ \E uid \in Users, txt \in Texts1 : BetweenText1(uid, Profile(uid), txt)

SpecBetween == InitBetween /\ [][NextBetween]_vars

\* ======================================================================
\* Properties
\* ======================================================================
RowIndices(s, uid) == {i \in 1..Len(s) : s[i].telegram_user_id = uid}
HasRow(s, uid) == \E i \in 1..Len(s) : s[i].telegram_user_id = uid
\* the row a read of uid finds: the first one
RowOf(s, uid) ==
    s[CHOOSE i \in 1..Len(s) :
         /\ s[i].telegram_user_id = uid
         /\ \A j \in 1..(i - 1) : s[j].telegram_user_id # uid]

InboundEvents == {"start", "today", "status", "setbirth", "help", "premium", "text"}

\* this step is the handling of an inbound event of uid
HandlerStep(uid) ==
    /\ last'.seq # last.seq
    /\ last'.uid = uid
    /\ last'.ev \in InboundEvents

\* this step sends a message to uid: an inbound event's reply or a broadcast
MessageStep(uid) ==
    /\ last'.seq # last.seq
    /\ last'.uid = uid

\* the inbound event asks for a forecast: /today, its button, or a birth date
ForecastRequest(l) ==
    \/ l.ev = "today"
    \/ l.ev = "text" /\ l.txt = BtnToday
    \/ l.ev = "text" /\ parse_birth_date(l.txt) # None

\* C1: with a working store and events handled one at a time, the sheet
\* never holds two data rows with the same user id.
C1_UniqueUserId ==
    \A uid \in Users : Cardinality(RowIndices(sheet, uid)) <= 1

\* C1 witness: both users have a row and the row of the user handled last
\* was found and overwritten, not appended.
C1_Witness ==
    /\ Len(sheet) = NUsers
    /\ steps > NUsers
    /\ last.ev = "status"
    /\ HasRow(sheet, last.uid)

\* all handlers in flight have replied
AllDone == \A i \in 1..Len(tasks) : tasks[i].pc = "done"

\* C2: handlers in flight together for one user id, each on its first
\* contact, never leave two rows for the id, and end with exactly one.
C2_RaceOneRow ==
    \A uid \in Users :
        /\ Cardinality(RowIndices(sheet, uid)) <= 1
        /\ (/\ enabled
            /\ AllDone
            /\ \E i \in 1..Len(tasks) : tasks[i].uid = uid /\ tasks[i].ev # "help")
           => Cardinality(RowIndices(sheet, uid)) = 1

\* C2 witness: two handlers for one id, both come in before the id had a
\* row, are suspended at their replies together, and one row is stored.
C2_Witness ==
    /\ enabled
    /\ Len(tasks) = 2
    /\ tasks[1].uid = tasks[2].uid
    /\ tasks[1].first /\ tasks[2].first
    /\ tasks[1].pc = "reply" /\ tasks[2].pc = "reply"
    /\ Cardinality(RowIndices(sheet, tasks[1].uid)) = 1

\* C3: a user whose stored status is not active gets no forecast from
\* /today, a birth-date text or the broadcast, and status and plan stay.
C3_BlockedNoForecast ==
    [][\A uid \in Users :
         (/\ HasRow(sheet, uid)
          /\ RowOf(sheet, uid).status # "active"
          /\ MessageStep(uid))
         => /\ last'.msg.kind # "forecast"
            /\ RowOf(sheet', uid).status = RowOf(sheet, uid).status
            /\ RowOf(sheet', uid).plan = RowOf(sheet, uid).plan]_vars

\* the stored trial of uid ran out before today
TrialExpired(s, uid) ==
    /\ HasRow(s, uid)
    /\ RowOf(s, uid).plan = "trial"
    /\ RowOf(s, uid).trial_expires # Empty
    /\ DateLT(DateOfIso(RowOf(s, uid).trial_expires), today)

\* C4: a forecast request of a user whose trial has run out (and whose
\* birth date is known, so that a forecast can be made) sends no forecast
\* and leaves the row blocked (status or plan).
C4_ExpiredTrialBlocked ==
    [][\A uid \in Users :
         (/\ TrialExpired(sheet, uid)
          /\ RowOf(sheet, uid).birth_date # Empty
          /\ HandlerStep(uid)
          /\ ForecastRequest(last'))
         => /\ last'.msg.kind # "forecast"
            /\ \/ RowOf(sheet', uid).status = "blocked"
               \/ RowOf(sheet', uid).plan = "blocked"]_vars

\* C5: no inbound-event handler changes the plan or status of an active
\* premium record, whatever its trial_expires.
C5_PremiumUntouched ==
    [][\A uid \in Users :
         (/\ HasRow(sheet, uid)
          /\ RowOf(sheet, uid).status = "active"
          /\ RowOf(sheet, uid).plan = "premium"
          /\ HandlerStep(uid))
         => /\ RowOf(sheet', uid).plan = "premium"
            /\ RowOf(sheet', uid).status = "active"]_vars

\* the inbound events that create a record
CreatingEvents == {"start", "today", "status", "text"}

\* C6: the row the first inbound event of an unknown user creates has
\* status active, plan trial and trial_expires = that day + the trial length.
C6_CreatedWithTrial ==
    [][\A uid \in Users :
         (/\ enabled
          /\ ~HasRow(sheet, uid)
          /\ HandlerStep(uid)
          /\ last'.ev \in CreatingEvents)
         => /\ HasRow(sheet', uid)
            /\ RowOf(sheet', uid).status = "active"
            /\ RowOf(sheet', uid).plan = "trial"
            /\ RowOf(sheet', uid).trial_expires = IsoDate(AddDays(today, TRIAL_DAYS))]_vars

\* C7: a forecast request for a record with plan trial and no
\* trial_expires yields no forecast.
C7_TrialWithoutExpiryBlocked ==
    [][\A uid \in Users :
         (/\ HasRow(sheet, uid)
          /\ RowOf(sheet, uid).status = "active"
          /\ RowOf(sheet, uid).plan = "trial"
          /\ RowOf(sheet, uid).trial_expires = Empty
          /\ HandlerStep(uid)
          /\ ForecastRequest(last'))
         => last'.msg.kind # "forecast"]_vars

StoredLfy(s, uid) == IF HasRow(s, uid) THEN RowOf(s, uid).last_full_ym ELSE Empty
StoredRegisteredOn(s, uid) ==
    IF HasRow(s, uid) THEN RowOf(s, uid).registered_on ELSE IsoDate(today)

\* the step makes a forecast whose detail should_send_full_all or
\* should_send_full_for_lg_lm decided (on_text of the second program and
\* the broadcast's stale column do not ask them about the stored row)
DecidedForecastStep(uid) ==
    /\ HandlerStep(uid)
    /\ last'.msg.kind = "forecast"
    /\ prog = 2 => (last'.ev = "today" \/ last'.txt = BtnToday)

C10_FirstForecastFull ==
    [][\A uid \in Users :
         (/\ enabled
          /\ MessageStep(uid)
          /\ last'.msg.kind = "forecast"
          /\ StoredLfy(sheet, uid) = Empty)
         => /\ last'.msg.full
            /\ HasRow(sheet', uid)
            /\ RowOf(sheet', uid).last_full_ym = YearMonth(last'.msg.day)]_vars

\* C10 witness: a first forecast by /today on a day other than the 1st
\* (the birth date was typed into the row), full and recorded.
C10_Witness ==
    /\ last.ev = "today"
    /\ last.msg.kind = "forecast"
    /\ last.msg.full
    /\ last.msg.day[3] # 1
    /\ steps = 3
    /\ RowOf(sheet, last.uid).last_full_ym = YearMonth(today)

\* C11: a user gets at most one full-detail forecast in a calendar month:
\* once last_full_ym holds a month (a full forecast was made in it), no
\* /today, birth date or broadcast of that month makes another full one
\* or writes the month again.
C11_OneFullPerMonth ==
    [][\A uid \in Users :
         (/\ MessageStep(uid)
          /\ last'.msg.kind = "forecast"
          /\ last'.msg.full)
         => StoredLfy(sheet, uid) # YearMonth(last'.msg.day)]_vars

\* the inbound event is /setbirth or its button
SetBirthRequest(l) ==
    \/ l.ev = "setbirth"
    \/ l.ev = "text" /\ l.txt = BtnSetBirth

\* the step sends uid a full forecast and leaves its month in last_full_ym
FullForecastRecorded(uid) ==
    /\ MessageStep(uid)
    /\ last'.msg.kind = "forecast"
    /\ last'.msg.full
    /\ StoredLfy(sheet', uid) = YearMonth(last'.msg.day)

\* C12 as stated: last_full_ym changes only in a step that renders a full
\* forecast for the user, to the month of that forecast; every other
\* step (short forecast, prompt, help) leaves it as it was.
C12_LastFullYmOnlyByFull ==
    [][\A uid \in Users :
         (/\ sheet' # sheet
          /\ HasRow(sheet', uid)
          /\ StoredLfy(sheet', uid) # StoredLfy(sheet, uid))
         => FullForecastRecorded(uid)]_vars

\* C12 amended: last_full_ym changes only in a step that renders a full
\* forecast for the user, to the month of that forecast, or in /setbirth
\* of the second program, which empties it; so it is always empty or the
\* month of a full forecast that was rendered.
C12_LastFullYmByFullOrSetBirth ==
    [][\A uid \in Users :
         (/\ sheet' # sheet
          /\ HasRow(sheet', uid)
          /\ StoredLfy(sheet', uid) # StoredLfy(sheet, uid))
         => \/ FullForecastRecorded(uid)
            \/ /\ prog = 2
               /\ HandlerStep(uid)
               /\ SetBirthRequest(last')
               /\ StoredLfy(sheet', uid) = Empty]_vars

\* C12 witness: a short forecast was sent and the month recorded earlier
\* is still in last_full_ym.
C12_Witness ==
    /\ last.msg.kind = "forecast"
    /\ ~last.msg.full
    /\ HasRow(sheet, last.uid)
    /\ RowOf(sheet, last.uid).last_full_ym = YearMonth(last.msg.day)

\* the inbound event is /today or its button
TodayRequest(l) ==
    \/ l.ev = "today"
    \/ l.ev = "text" /\ l.txt = BtnToday

\* the access fields and last_full_ym of uid are what they were
AccessUnchanged(uid) ==
    /\ HasRow(sheet', uid)
    /\ RowOf(sheet', uid).last_full_ym = RowOf(sheet, uid).last_full_ym
    /\ RowOf(sheet', uid).plan = RowOf(sheet, uid).plan
    /\ RowOf(sheet', uid).status = RowOf(sheet, uid).status
    /\ RowOf(sheet', uid).trial_expires = RowOf(sheet, uid).trial_expires

\* C13: /today for a user with no stored birth date is answered with the
\* prompt for a birth date, not a forecast, and last_full_ym, plan, status
\* and trial_expires stay as they were.
C13_TodayWithoutBirthDate ==
    [][\A uid \in Users :
         (/\ HandlerStep(uid)
          /\ TodayRequest(last')
          /\ HasRow(sheet, uid) => RowOf(sheet, uid).birth_date = Empty)
         => /\ last'.msg.kind = "ask_birth"
            /\ HasRow(sheet, uid) => AccessUnchanged(uid)]_vars

\* C13 witness: a user who registered with /start and has a trial asked
\* for /today and was asked for the birth date.
C13_Witness ==
    /\ TodayRequest(last)
    /\ last.msg.kind = "ask_birth"
    /\ HasRow(sheet, last.uid)
    /\ RowOf(sheet, last.uid).birth_date = Empty
    /\ RowOf(sheet, last.uid).trial_expires # Empty

\* the text is a DD.MM.YYYY date later than today
FutureDateText(txt) ==
    /\ parse_birth_date(txt) # None
    /\ DateLT(today, parse_birth_date(txt))

\* C14: a DD.MM.YYYY text whose date is later than today is rejected: no
\* forecast is sent and the stored birth_date is what it was (empty for a
\* user the event created).
C14_FutureBirthDateRejected ==
    [][\A uid \in Users :
         (/\ HandlerStep(uid)
          /\ last'.ev = "text"
          /\ FutureDateText(last'.txt))
         => /\ last'.msg.kind # "forecast"
            /\ HasRow(sheet', uid) =>
                  RowOf(sheet', uid).birth_date =
                     IF HasRow(sheet, uid) THEN RowOf(sheet, uid).birth_date
                     ELSE Empty]_vars

\* C15: a text that is a valid DD.MM.YYYY date is, in the one handler
\* run, stored as the user's birth_date (working store) and answered with
\* a forecast for today computed from that date.
C15_BirthDateStoredAndForecast ==
    [][\A uid \in Users :
         (/\ HandlerStep(uid)
          /\ last'.ev = "text"
          /\ parse_birth_date(last'.txt) # None)
         => /\ last'.msg.kind = "forecast"
            /\ last'.msg.birth = parse_birth_date(last'.txt)
            /\ last'.msg.day = today
            /\ enabled =>
                  /\ HasRow(sheet', uid)
                  /\ RowOf(sheet', uid).birth_date =
                        FormatDmy(parse_birth_date(last'.txt))]_vars

\* C15 witness: a user known since an earlier day sent a birth date and
\* got the forecast for it, and the date is in the row.
C15_Witness ==
    /\ last.ev = "text"
    /\ last.txt = BirthText
    /\ last.msg.kind = "forecast"
    /\ last.msg.birth = <<1994, 3, 5>>
    /\ HasRow(sheet, last.uid)
    /\ RowOf(sheet, last.uid).birth_date = BirthText
    /\ RowOf(sheet, last.uid).last_seen_at = IsoDateTime(today)
    /\ RowOf(sheet, last.uid).created_at # IsoDateTime(today)

\* the text is neither a button nor a valid DD.MM.YYYY date
UnrecognizedText(txt) ==
    /\ txt \notin {BtnToday, BtnStatus, BtnSetBirth, BtnHelp}
    /\ ~(Len(txt) = 4 /\ txt[1] = "dmy" /\ ValidDate(txt[4], txt[3], txt[2]))

\* the replies that tell the user what to send
HelpPrompts == {"prompt", "unknown"}

\* C16: a text that is neither a command or button nor a valid date
\* (31.02.2000 included) is answered with the help prompt, and the stored
\* birth_date, status, plan, trial_expires and last_full_ym stay.
C16_UnrecognizedTextFrame ==
    [][\A uid \in Users :
         (/\ HandlerStep(uid)
          /\ last'.ev = "text"
          /\ UnrecognizedText(last'.txt))
         => /\ last'.msg.kind \in HelpPrompts
            /\ HasRow(sheet, uid) =>
                  /\ AccessUnchanged(uid)
                  /\ RowOf(sheet', uid).birth_date = RowOf(sheet, uid).birth_date]_vars

\* C16 witness: a user with a stored birth date sent 31.02.2000, got the
\* prompt and kept the birth date.
C16_Witness ==
    /\ last.ev = "text"
    /\ last.txt = ImpossibleText
    /\ last.msg.kind \in HelpPrompts
    /\ HasRow(sheet, last.uid)
    /\ RowOf(sheet, last.uid).birth_date = BirthText
    /\ RowOf(sheet, last.uid).last_full_ym # Empty

\* C17: every forecast made on the 10th, 20th or 30th of a month holds the
\* cautionary notice in place of the general-day description, full or
\* short, on every path.
C17_NoticeOnUnfavorableDays ==
    (last.msg.kind = "forecast" /\ last.msg.day[3] \in {10, 20, 30})
    => last.msg.od = "warning"

\* C18: every forecast holds the full personal-day text; the personal
\* year and month are expanded exactly when the decision is full and
\* abbreviated exactly when it is short.
C18_SectionsFollowDecision ==
    last.msg.kind = "forecast"
    => /\ last.msg.ld = "full"
       /\ last.msg.lg = (IF last.msg.full THEN "full" ELSE "short")
       /\ last.msg.lm = (IF last.msg.full THEN "full" ELSE "short")

\* C18 witness: a short forecast of the second program, with the full
\* personal day and the abbreviated personal year and month.
C18_Witness ==
    /\ prog = 2
    /\ last.msg.kind = "forecast"
    /\ ~last.msg.full
    /\ last.msg.ld = "full"
    /\ last.msg.lg = "short"
    /\ last.msg.lm = "short"

\* C19: a UserRow written with upsert and read back by its id comes back
\* equal to the one written in all 12 fields.
C19_RoundTrip ==
    (enabled /\ call.written # None) => call.read = call.written

\* C20: after upsert of a record whose id has a row, all 12 cells of the
\* row are the fields of the record and the sheet has as many rows as
\* before.
C20_WholeRowOverwritten ==
    [][(/\ enabled
        /\ call'.written # None
        /\ HasRow(sheet, call'.written.telegram_user_id))
       => /\ RowOf(sheet', call'.written.telegram_user_id) = call'.written
          /\ Len(sheet') = Len(sheet)
          /\ \A i \in 1..Len(sheet) :
                sheet[i].telegram_user_id # call'.written.telegram_user_id
                => sheet'[i] = sheet[i]]_vars

\* C20 witness: the row of the first user, which was there before the
\* second user's row, was written last, with an empty birth_date and
\* last_full_ym, and holds exactly the record written.
C20_Witness ==
    /\ enabled
    /\ Len(sheet) = 2
    /\ call.written # None
    /\ call.written = sheet[1]
    /\ call.written.birth_date = Empty
    /\ call.written.last_full_ym = Empty
    /\ sheet[2].birth_date # Empty

\* the cell of data row r that stands under the header called name
Under(g, r, name) == g.rows[r][ColumnOf(g.header, name)]

HasColumn(g, name) == \E i \in 1..Len(g.header) : g.header[i] = name

\* columns that neither /status nor a broadcast has any reason to write
KeptColumns == {"trial_expires", "birth_date", "registered_on", "note"}

\* C21: with the known columns in another order, or a column added, every
\* read returns each field from under its own header, and no step moves
\* or drops the data standing under a header no handler writes.
C21_FieldsUnderOwnHeader ==
    [][/\ \A r \in 1..Len(grid.rows) :
            (call' # call /\ call'.read # None
               /\ grid.rows[r][1] = call'.read.telegram_user_id)
            => /\ call'.read.birth_date = Under(grid, r, "birth_date")
               /\ call'.read.trial_expires = Under(grid, r, "trial_expires")
               /\ call'.read.last_full_ym = Under(grid, r, "last_full_ym")
       /\ \A r \in 1..Len(grid.rows), name \in KeptColumns :
            HasColumn(grid, name)
            => /\ HasColumn(grid', name)
               /\ Under(grid', r, name) = Under(grid, r, name)]_vars

Range(seq) == {seq[i] : i \in 1..Len(seq)}

\* the UserRows the handlers of the running program work with when an
\* event of user uid arrives in the current state
RecordsUsed(uid) ==
    IF prog = 1
    THEN LET ur == get(sheet, uid).ur IN
         {ur, cmd_status1_body(ur).ur, cmd_today1_body(ur).ur}
         \cup {cmd_start1_body(ur, Profile(uid)).ur}
         \cup {handle_text1_body(ur, Profile(uid), txt).ur : txt \in Texts1}
    ELSE LET u == upsert_from_update(sheet, uid, Profile(uid)).ur IN
         {u} \cup Range(cmd_start2_body(u).writes)
             \cup Range(cmd_today2_body(u).writes)
             \cup Range(cmd_setbirth2_body(u).writes)
             \cup UNION {Range(on_text2_body(u, txt).writes) : txt \in Texts1}

\* C22: while the store is unavailable every record a handler works with
\* has plan trial, and no event writes anything to the store.
C22_UnavailableIsTrialReadOnly ==
    [][~enabled =>
          /\ sheet' = sheet
          /\ \A uid \in Users : \A r \in RecordsUsed(uid) : r.plan = "trial"]_vars

\* the store is unavailable and /today was answered
C22_Witness ==
    /\ ~enabled
    /\ last.ev = "today"
    /\ last.msg.kind = "ask_birth"
    /\ sheet = <<>>

\* C23: a store call that raises while an inbound event is handled does
\* not leave the handler: the handler still ends with a reply to the user.
C23_FaultStillReplies ==
    [][\A uid \in Users :
          (HandlerStep(uid) /\ fault' # "none") => last'.msg.kind # "none"]_vars

\* the fields of a row that /status gives no reason to change
KeptFields(r) ==
    <<r.birth_date, r.status, r.plan, r.trial_expires, r.created_at,
      r.registered_on, r.last_full_ym>>

digitalRoot(n) == IF n = 0 THEN 9 ELSE 1 + ((n - 1) % 9)

\* the four numbers by the nested digital-root formulas
FormulaYear(b, t) == digitalRoot(digitalRoot(b[3]) + digitalRoot(b[2]) + digitalRoot(t[1]))
FormulaMonth(b, t) == digitalRoot(FormulaYear(b, t) + digitalRoot(t[2]))
FormulaDay(b, t) == digitalRoot(FormulaMonth(b, t) + digitalRoot(t[3]))
FormulaGeneral(t) == digitalRoot(digitalRoot(t[3]) + digitalRoot(t[2]) + digitalRoot(t[1]))

NumbersFollowFormulas ==
    nums.of = "forecast"
    => /\ nums.py = FormulaYear(nums.birth, nums.day)
       /\ nums.pm = FormulaMonth(nums.birth, nums.day)
       /\ nums.pd = FormulaDay(nums.birth, nums.day)
       /\ nums.od = FormulaGeneral(nums.day)

ExampleDates ==
    /\ nums.of = "forecast"
    /\ nums.birth = <<BirthYear, 3, 5>>
    /\ nums.day = <<FirstYear, 3, 1>>

\* C24 as stated: the four numbers of both programs equal the nested
\* digital-root formulas, and birth 05.03.1994 with today 2024-03-01 gives
\* personal year 5, personal month 8, personal day 9, general day 1.
C24_NumbersAndExample ==
    /\ NumbersFollowFormulas
    /\ ExampleDates => (nums.py = 5 /\ nums.pm = 8 /\ nums.pd = 9 /\ nums.od = 1)

\* C24: the four numbers of both programs equal the nested digital-root
\* formulas for every birth date and every day of the range; birth
\* 05.03.1994 with today 2024-03-01 gives personal year 7, personal month
\* 1, personal day 2, general day 3.
C24_NumbersFollowFormulas ==
    /\ NumbersFollowFormulas
    /\ ExampleDates => (nums.py = 7 /\ nums.pm = 1 /\ nums.pd = 2 /\ nums.od = 3)

\* the numbers of the example were computed
C24_Witness ==
    /\ ExampleDates
    /\ nums.py = 7
    /\ nums.od = 3

\* C25: reduce_1_9(n) is in 1..9 for every n >= 0 of the range, 9 for 0,
\* and reduce_1_9(reduce_1_9(n)) = reduce_1_9(n).
C25_ReduceInRangeIdempotent ==
    nums.of = "reduce"
    => /\ nums.od \in 1..9
       /\ nums.n = 0 => nums.od = 9
       /\ nums.py = nums.od

\* reduce_1_9 was applied to 0, and to a number that takes two rounds
C25_Witness ==
    /\ nums.of = "reduce"
    /\ nums.n \in {0, 99}
    /\ nums.od = 9

\* C26: once a user's row has a created_at and a registered_on, no inbound
\* event of that user changes either cell.
C26_CreatedSetOnce ==
    [][sheet' # sheet =>
         \A uid \in Users :
            (/\ HandlerStep(uid)
             /\ HasRow(sheet, uid)
             /\ RowOf(sheet, uid).created_at # Empty
             /\ RowOf(sheet, uid).registered_on # Empty)
            => /\ RowOf(sheet', uid).created_at = RowOf(sheet, uid).created_at
               /\ RowOf(sheet', uid).registered_on = RowOf(sheet, uid).registered_on]_vars

\* a user who registered on an earlier day sent /start or a text today
C26_Witness ==
    /\ last.ev \in {"start", "text"}
    /\ HasRow(sheet, last.uid)
    /\ RowOf(sheet, last.uid).last_seen_at = IsoDateTime(today)
    /\ RowOf(sheet, last.uid).created_at = IsoDateTime(Day0)
    /\ RowOf(sheet, last.uid).registered_on = IsoDate(Day0)
    /\ today # Day0

\* C29: once a user's trial_expires is non-empty, no inbound event of that
\* user changes, extends, renews or clears it.
C29_TrialIssuedOnce ==
    [][sheet' # sheet =>
         \A uid \in Users :
            (/\ HandlerStep(uid)
             /\ HasRow(sheet, uid)
             /\ RowOf(sheet, uid).trial_expires # Empty)
            => RowOf(sheet', uid).trial_expires = RowOf(sheet, uid).trial_expires]_vars

\* a user whose trial was issued on an earlier day sent /start or a birth
\* date today and still has the trial of that day
C29_Witness ==
    /\ last.ev \in {"start", "text"}
    /\ today # Day0
    /\ HasRow(sheet, last.uid)
    /\ RowOf(sheet, last.uid).last_seen_at = IsoDateTime(today)
    /\ RowOf(sheet, last.uid).trial_expires = IsoDate(AddDays(Day0, TRIAL_DAYS))

\* row i of the sheet is one the broadcast is due to: an integer id, status
\* active (an empty status cell reads as active), a valid date of birth
DueRow(i) ==
    /\ sheet[i].telegram_user_id \in Users
    /\ sheet[i].status \in {"active", ""}
    /\ LET b == sheet[i].birth_date IN
       Len(b) = 4 /\ b[1] = "dmy" /\ ValidDate(b[4], b[3], b[2])

\* the send attempts made to sheet row i (sheet row 1 is the header)
Attempts(i) == Cardinality({k \in 1..Len(sent) : sent[k].row = i + 1})

RunOver == bc.pc = "idle" /\ bcDay = today

\* C30: one run of job_daily_broadcast makes exactly one send attempt to
\* every row with status active and a valid birth date, none to a row with
\* another status, an empty or unparseable birth date or a non-integer id,
\* and a send that failed does not keep the later rows from theirs.
C30_OneAttemptPerDueRow ==
    \A i \in 1..Len(sheet) :
       /\ Attempts(i) <= 1
       /\ ~DueRow(i) => Attempts(i) = 0
       /\ (RunOver /\ DueRow(i)) => Attempts(i) = 1

\* a run is over in which the first send failed and a second was made
C30_Witness ==
    /\ RunOver
    /\ Len(sent) = 2
    /\ sent[1].raised
    /\ sent[1].row # sent[2].row

\* C31: when the send to a row's user failed in a broadcast run, the row's
\* last_full_ym still has the value it had before the run (every row of a
\* run's sheet starts with the cell empty).
C31_FailedSendKeepsLastFullYm ==
    \A k \in 1..Len(sent) :
       sent[k].raised => sheet[sent[k].row - 1].last_full_ym = Empty

\* this step is the broadcast loop running on from a send, or its start
BroadcastLoopStep == bc' # bc

\* C32: with handlers run while the broadcast was suspended at a send,
\* every update_cell of the run writes only to a row whose id cell is the
\* uid being processed (sheet row i + 2 of entry i still is that user's
\* row), and the loop neither adds nor removes rows.
C32_UpdateCellHitsOwnRow ==
    [][BroadcastLoopStep =>
         /\ Len(sheet') = Len(sheet)
         /\ bc'.pc = "send" => sheet'[bc'.i].telegram_user_id = last'.uid
         /\ \A i \in 1..Len(sheet) :
               sheet'[i] # sheet[i]
               => /\ sheet[i].telegram_user_id = last'.uid
                  /\ sheet'[i] = [sheet[i] EXCEPT !.last_full_ym = YearMonth(today)]]_vars

\* the run wrote the month into the second row after a handler, run while
\* the first send was awaited, had overwritten the first row
C32_Witness ==
    /\ bc.pc = "send"
    /\ bc.i = 2
    /\ steps = 1
    /\ last.ev = "broadcast"
    /\ sheet[1].last_seen_at = Now
    /\ sheet[2].telegram_user_id = last.uid
    /\ sheet[2].last_full_ym = YearMonth(today)

ValidDateText(txt) ==
    Len(txt) = 4 /\ txt[1] = "dmy" /\ ValidDate(txt[4], txt[3], txt[2])

\* C34: in the second program /setbirth (command or button) leaves the
\* user's birth_date and last_full_ym empty; while the stored birth_date
\* is empty every /today is answered with the prompt for a birth date and
\* leaves it empty, and only a valid DD.MM.YYYY text puts a date there.
C34_SetBirthThenAskUntilDate ==
    [][(prog = 2 /\ enabled) =>
         \A uid \in Users :
            HandlerStep(uid)
            => /\ SetBirthRequest(last')
                  => /\ HasRow(sheet', uid)
                     /\ RowOf(sheet', uid).birth_date = Empty
                     /\ RowOf(sheet', uid).last_full_ym = Empty
                     /\ last'.msg.kind = "setbirth"
               /\ (HasRow(sheet, uid) /\ RowOf(sheet, uid).birth_date = Empty)
                  => /\ TodayRequest(last')
                        => /\ last'.msg.kind = "ask_birth"
                           /\ RowOf(sheet', uid).birth_date = Empty
                     /\ RowOf(sheet', uid).birth_date # Empty
                        => /\ last'.ev = "text"
                           /\ ValidDateText(last'.txt)
                           /\ last'.msg.kind = "forecast"]_vars

\* a user with a trial pressed "change birth date": both cells are empty
C34_Witness ==
    /\ prog = 2
    /\ SetBirthRequest(last)
    /\ last.msg.kind = "setbirth"
    /\ steps >= 2
    /\ HasRow(sheet, last.uid)
    /\ RowOf(sheet, last.uid).birth_date = Empty
    /\ RowOf(sheet, last.uid).last_full_ym = Empty
    /\ RowOf(sheet, last.uid).trial_expires # Empty

\* the cell is an ISO YYYY-MM-DD date of the calendar
IsIsoDateCell(c) == Len(c) = 4 /\ c[1] = "iso" /\ ValidDate(c[2], c[3], c[4])

\* the non-empty date cells of every row have their format
DateCellsWellFormedOrEmpty ==
    \A i \in 1..Len(sheet) :
       /\ sheet[i].birth_date = Empty \/ ValidDateText(sheet[i].birth_date)
       /\ sheet[i].trial_expires = Empty \/ IsIsoDateCell(sheet[i].trial_expires)
       /\ IsIsoDateCell(sheet[i].registered_on)

\* C35: in every reachable state each stored birth_date is empty or a
\* valid DD.MM.YYYY date, and each stored trial_expires and registered_on
\* is an ISO YYYY-MM-DD date.
C35_StoredDateFormats ==
    \A i \in 1..Len(sheet) :
       /\ sheet[i].birth_date = Empty \/ ValidDateText(sheet[i].birth_date)
       /\ IsIsoDateCell(sheet[i].trial_expires)
       /\ IsIsoDateCell(sheet[i].registered_on)

====
